---- MODULE Spec2Model ----
(***************************************************************************)
(* Model of KXDocRE/context/onehop.py and KXDocRE/context/threehop.py:     *)
(* the batch pipeline that queries a graph endpoint for the relation paths *)
(* of entity pairs, resolves the codes of the paths to labels and appends  *)
(* one text line per result to an output file.                             *)
(*                                                                         *)
(* Strings are sequences of tokens: a token is either one of the separator *)
(* characters the code splits or joins on ("/", "-", "#", "$", "|", TAB)   *)
(* or a maximal separator-free piece of text.  "Q1" is <<"Q1">>, the empty *)
(* string is <<>>, "e/qx-1ab2" is <<"e", "/", "qx", "-", "1ab2">>.         *)
(* Python dicts are functions; a dict that keeps insertion order and is    *)
(* iterated (entity_relations) is a sequence of [key, vals] entries.       *)
(* events is the log of what the run did to the outside: the requests to   *)
(* the two endpoints, the sleeps and the writes to the output file.        *)
(* Sleeps are logged in tenths of a time unit (1.5 is 15, 5 is 50).        *)
(* rerun is the record of a second invocation of the driver on the same    *)
(* output file: how many times the driver was started again, the exchanges *)
(* of the first run with the endpoints, and the file the first run left.   *)
(***************************************************************************)
EXTENDS Naturals, Sequences, FiniteSets, TLC

VARIABLES variant, entity_pairs, batch_size, label_batch_size,
          pc, batch_idx, result, entity_relations,
          all_property_ids, unique_entities, label_i,
          property_labels, entity_labels, out_file, events, call, rerun

vars == <<variant, entity_pairs, batch_size, label_batch_size,
          pc, batch_idx, result, entity_relations,
          all_property_ids, unique_entities, label_i,
          property_labels, entity_labels, out_file, events, call, rerun>>

driverVars == <<entity_pairs, batch_size, label_batch_size,
                pc, batch_idx, result, entity_relations,
                all_property_ids, unique_entities, label_i,
                property_labels, entity_labels, out_file, events>>

(***************************************************************************)
(* Bounds of the model.                                                    *)
(***************************************************************************)
MaxPairs == 2
MaxBindings == 3
MaxCodes == 2

(***************************************************************************)
(* Program constants.                                                      *)
(***************************************************************************)
HTTP_OK == 200
BackPressureSleep == 50
LabelSleep == 15
PairBatchSleep == 15

(***************************************************************************)
(* Python helpers: strings, lists, dicts.                                  *)
(***************************************************************************)
EmptyStr == <<>>
EmptyDict == <<>>

Range(s) == {s[k] : k \in DOMAIN s}

Ceil(n, d) == (n + d - 1) \div d

Min(a, b) == IF a < b THEN a ELSE b

\* s[start:stop] of a Python list, 0-based and clipped to the list
Slice(s, start, stop) == SubSeq(s, start + 1, Min(stop, Len(s)))

\* d.get(k, default)
Get(d, k, default) == IF k \in DOMAIN d THEN d[k] ELSE default

\* d.update(e)
Update(d, e) ==
    [k \in (DOMAIN d) \cup (DOMAIN e) |-> IF k \in DOMAIN e THEN e[k] ELSE d[k]]

\* s.split("/")[-1]: what follows the last "/" (all of s when it has none)
LastSegment(s) ==
    LET slashes == {k \in DOMAIN s : s[k] = "/"}
        last == IF slashes = {} THEN 0
                ELSE CHOOSE k \in slashes : \A j \in slashes : j <= k
    IN  SubSeq(s, last + 1, Len(s))

\* s.split("-")[0]: what precedes the first "-" (all of s when it has none)
BeforeDash(s) ==
    LET dashes == {k \in DOMAIN s : s[k] = "-"}
        first == IF dashes = {} THEN Len(s) + 1
                 ELSE CHOOSE k \in dashes : \A j \in dashes : k <= j
    IN  SubSeq(s, 1, first - 1)

\* str.upper() of one token (the tokens of the model that have lowercase letters)
UpperToken(t) ==
    CASE t = "qx" -> "QX"
      [] t = "Qx" -> "QX"
      [] t = "qy" -> "QY"
      [] t = "1ab2" -> "1AB2"
      [] t = "e" -> "E"
      [] OTHER -> t

\* s.upper()
Upper(s) == [k \in DOMAIN s |-> UpperToken(s[k])]

\* sep.join(parts)
RECURSIVE Join(_, _)
Join(sep, parts) ==
    IF parts = <<>> THEN EmptyStr
    ELSE IF Len(parts) = 1 THEN parts[1]
    ELSE parts[1] \o <<sep>> \o Join(sep, Tail(parts))

(***************************************************************************)
(* The label-lookup endpoint.  A response is [status, empty, data]: empty  *)
(* says the body text is blank, data is the parsed JSON body otherwise.    *)
(***************************************************************************)
P31 == <<"P31">>
P279 == <<"P279">>
P1 == <<"P1">>
P2 == <<"P2">>
QX == <<"QX">>

\* the English label the lookup service has for a code
EnLabel(c) ==
    CASE c = P31 -> <<"instance of">>
      [] c = P279 -> <<"subclass of">>
      [] c = P1 -> <<"part of">>
      [] c = P2 -> <<"follows">>
      [] c = QX -> <<"thing">>
      [] OTHER -> <<"label">>

\* the shapes of one entity object of an `entities` container
EntityWithEn(c) == [labels |-> [en |-> [value |-> EnLabel(c)]]]
EntityOtherLanguage(c) == [labels |-> [de |-> [value |-> <<"etikett">>]]]
EntityNoLabels(c) == [id |-> c]

BlankBody(status) == [status |-> status, empty |-> TRUE, data |-> EmptyDict]
JsonBody(status, data) == [status |-> status, empty |-> FALSE, data |-> data]

(***************************************************************************)
(* find_property_labels_batch.  The result says whether a request was      *)
(* issued, whether the call raised, and the mapping it returned.           *)
(***************************************************************************)
Returned(requested, labels) ==
    [requested |-> requested, raised |-> FALSE, labels |-> labels]
Raised(requested) ==
    [requested |-> requested, raised |-> TRUE, labels |-> EmptyDict]

\* IdentityLabels with the bug of returning no entry for the codes
IdentityLabels_Nothing(property_ids, labels) == labels

\* {property_id: property_id for property_id in property_ids}
RECURSIVE IdentityLabels(_, _)
IdentityLabels(property_ids, labels) ==
    IF property_ids = <<>> THEN labels
    ELSE LET id == Head(property_ids)
         IN  IdentityLabels(Tail(property_ids), Update(labels, id :> id))

\* the label of one requested id, given the `entities` container
LabelOrId(entities, id) ==
    IF id \in DOMAIN entities
    THEN LET entity == entities[id]
         IN  IF "labels" \in DOMAIN entity /\ "en" \in DOMAIN entity.labels
             THEN entity.labels.en.value
             ELSE id
    ELSE id

\* the loop over property_ids when `entities` is in the response
RECURSIVE LabelsFromEntities(_, _, _)
LabelsFromEntities(property_ids, entities, labels) ==
    IF property_ids = <<>> THEN labels
    ELSE LET id == Head(property_ids)
         IN  LabelsFromEntities(Tail(property_ids), entities,
                                Update(labels, id :> LabelOrId(entities, id)))

OneHop_find_property_labels_batch(property_ids, response) ==
    IF response.status = HTTP_OK
    THEN IF response.empty
         THEN Raised(TRUE)                  \* response.json() raises
         ELSE IF "entities" \in DOMAIN response.data
              THEN Returned(TRUE, LabelsFromEntities(property_ids,
                                      response.data.entities, EmptyDict))
              ELSE Returned(TRUE, IdentityLabels(property_ids, EmptyDict))
    ELSE Returned(TRUE, IdentityLabels(property_ids, EmptyDict))

ThreeHop_find_property_labels_batch(property_ids, response) ==
    IF property_ids = <<>>
    THEN Returned(FALSE, EmptyDict)
    ELSE IF response.status = HTTP_OK
         THEN IF response.empty
              THEN Returned(TRUE, IdentityLabels(property_ids, EmptyDict))
              ELSE IF "entities" \in DOMAIN response.data
                   THEN Returned(TRUE, LabelsFromEntities(property_ids,
                                           response.data.entities, EmptyDict))
                   ELSE Returned(TRUE, IdentityLabels(property_ids, EmptyDict))
         ELSE Returned(TRUE, IdentityLabels(property_ids, EmptyDict))

find_property_labels_batch(v, property_ids, response) ==
    IF v = "onehop"
    THEN OneHop_find_property_labels_batch(property_ids, response)
    ELSE ThreeHop_find_property_labels_batch(property_ids, response)

\* the record of one call of the resolver
CallOf(v, property_ids, response) ==
    [made |-> TRUE, variant |-> v, property_ids |-> property_ids,
     response |-> response,
     ret |-> find_property_labels_batch(v, property_ids, response)]

NoCall ==
    [made |-> FALSE, variant |-> "none", property_ids |-> <<>>,
     response |-> BlankBody(0), ret |-> Returned(FALSE, EmptyDict)]

(***************************************************************************)
(* The graph-query endpoint: entity pairs, result URIs and the bindings    *)
(* the endpoint answers with.                                              *)
(***************************************************************************)
PairA == <<<<"Q1">>, <<"Q2">>>>
PairB == <<<<"Q3">>, <<"Q4">>>>
PairC == <<<<"Q10">>, <<"Q20">>>>
PairPool == {PairA, PairB, PairC}

EntityUri(code) ==
    <<"http:", "/", "/", "www.wikidata.org", "/", "entity", "/">> \o code
PropUri(code) ==
    <<"http:", "/", "/", "www.wikidata.org", "/", "prop", "/", "direct", "/">> \o code
StatementUri(code, suffix) ==
    <<"http:", "/", "/", "www.wikidata.org", "/", "entity", "/", "statement", "/">>
        \o code \o <<"-">> \o suffix

Val(uri) == [value |-> uri]

\* a 1-hop binding: ?entity1 ?entity2 ?property
Binding1(pair, prop) ==
    [entity1 |-> Val(EntityUri(pair[1])), entity2 |-> Val(EntityUri(pair[2])),
     property |-> Val(PropUri(prop))]

\* a 4-hop binding: ?entity1 ?entity2 and the seven sampled variables
Binding4(pair, r1, x, r2, y, r3, z, r4) ==
    [entity1 |-> Val(EntityUri(pair[1])), entity2 |-> Val(EntityUri(pair[2])),
     relation1 |-> Val(PropUri(r1)), x |-> Val(x),
     relation2 |-> Val(PropUri(r2)), y |-> Val(y),
     relation3 |-> Val(PropUri(r3)), z |-> Val(z),
     relation4 |-> Val(PropUri(r4))]

\* a binding that lacks every variable but the pair
BindingPairOnly(pair) ==
    [entity1 |-> Val(EntityUri(pair[1])), entity2 |-> Val(EntityUri(pair[2]))]

\* a 4-hop binding that lacks the intermediate variables ?x ?y ?z
BindingNoIntermediates(pair, r) ==
    [entity1 |-> Val(EntityUri(pair[1])), entity2 |-> Val(EntityUri(pair[2])),
     relation1 |-> Val(PropUri(r)), relation2 |-> Val(PropUri(r)),
     relation3 |-> Val(PropUri(r)), relation4 |-> Val(PropUri(r))]

\* the bindings the endpoint may answer with for one pair of the VALUES clause
BindingsOf(v, pair) ==
    IF v = "onehop"
    THEN CASE pair = PairA -> {Binding1(PairA, P31), Binding1(PairA, P279)}
           [] pair = PairB -> {Binding1(PairB, P31)}
           [] OTHER -> {BindingPairOnly(pair)}
    ELSE CASE pair = PairC ->
                {Binding4(PairC, P1, StatementUri(<<"qx">>, <<"1ab2">>), P2,
                          EntityUri(<<"Qx">>), P1, EntityUri(<<"QX">>), P2),
                 Binding4(PairC, P2, EntityUri(<<"QX">>), P2,
                          EntityUri(<<"QX">>), P2, EntityUri(<<"QX">>), P2)}
           [] pair = PairB -> {BindingNoIntermediates(PairB, P1)}
           [] OTHER -> {}

SeqsUpTo(S, n) == UNION {[1..k -> S] : k \in 0..n}

\* rerun before the driver is started a second time
NoRerun == [n |-> 0, transcript |-> <<>>, lines |-> <<>>]

\* the responses the first run got to a request: an exchange of the transcript
\* is [kind, batch, i, request, response]
Recorded(kind, batch, request) ==
    {e.response : e \in {x \in Range(rerun.transcript) :
                            x.kind = kind /\ x.batch = batch /\ x.request = request}}

BindingPool(v, batch) == UNION {BindingsOf(v, pair) : pair \in Range(batch)}

\* the responses of the graph-query endpoint to the query for one batch
GraphAnswers(v, batch) ==
    {BlankBody(500), BlankBody(HTTP_OK),
     JsonBody(HTTP_OK, EmptyDict),
     JsonBody(HTTP_OK, [head |-> [vars |-> <<>>]])}
    \cup {JsonBody(HTTP_OK, [results |-> [bindings |-> bs]]) :
             bs \in SeqsUpTo(BindingPool(v, batch), MaxBindings)}

\* in a second run the endpoint answers the query as it did in the first
SparqlResponses(v, batch) ==
    IF rerun.n = 0 THEN GraphAnswers(v, batch)
    ELSE Recorded("query", batch_idx, batch)

\* what the label-lookup service knows about a code
ServiceKnows(c) == c \in {P31, P279, P1, QX}
ServiceEntity(c) == IF c = P279 THEN EntityOtherLanguage(c) ELSE EntityWithEn(c)

\* the responses of the label-lookup endpoint to one request of the driver
LookupAnswers(property_ids) ==
    {BlankBody(500), BlankBody(HTTP_OK),
     JsonBody(HTTP_OK,
        [entities |-> [c \in {d \in Range(property_ids) : ServiceKnows(d)}
                           |-> ServiceEntity(c)]])}

\* in a second run the endpoint answers a request as it answered the request
\* for the same codes in the same label loop of the same pair-batch
LabelResponses(property_ids) ==
    IF rerun.n = 0 THEN LookupAnswers(property_ids)
    ELSE Recorded(pc, batch_idx, Range(property_ids))

(***************************************************************************)
(* batch_sparql_query: the request, and on failure the 5-unit sleep.       *)
(***************************************************************************)
SparqlRequest(batch) == [op |-> "sparql", arg |-> batch]
LabelRequest(property_ids) == [op |-> "labels", arg |-> property_ids]
Sleep(d) == [op |-> "sleep", arg |-> d]
WriteLines(lines) == [op |-> "write", arg |-> lines]

\* [raised, none, data, log]: log is what the call adds to the event log
OneHop_batch_sparql_query(batch, response) ==
    IF response.status = HTTP_OK
    THEN [raised |-> response.empty, none |-> FALSE, data |-> response.data,
          log |-> <<SparqlRequest(batch)>>]
    ELSE [raised |-> FALSE, none |-> TRUE, data |-> EmptyDict,
          log |-> <<SparqlRequest(batch), Sleep(BackPressureSleep)>>]

ThreeHop_batch_sparql_query(batch, response) ==
    IF response.status = HTTP_OK
    THEN [raised |-> response.empty, none |-> FALSE, data |-> response.data,
          log |-> <<SparqlRequest(batch)>>]
    ELSE [raised |-> FALSE, none |-> TRUE, data |-> EmptyDict,
          log |-> <<SparqlRequest(batch), Sleep(BackPressureSleep)>>]

\* Truthy with the bug of not testing the result at all
Truthy_Always(r) == TRUE

\* `if result:` of the driver: None and the empty dict are false
Truthy(r) == ~r.none /\ DOMAIN r.data # {}

\* result["results"]["bindings"] raises KeyError
HasBindings(data) ==
    "results" \in DOMAIN data /\ "bindings" \in DOMAIN data.results

(***************************************************************************)
(* Aggregation of the bindings into entity_relations, a dict in insertion  *)
(* order: a sequence of [key |-> <<entity1, entity2>>, vals |-> list].     *)
(***************************************************************************)
HasKey(er, key) == \E k \in DOMAIN er : er[k].key = key

\* AppendTo with the bug of dropping a value the pair already has
AppendTo_NoRepeat(er, key, val) ==
    IF HasKey(er, key)
    THEN [k \in DOMAIN er |->
             IF er[k].key = key /\ val \notin Range(er[k].vals)
             THEN [key |-> key, vals |-> Append(er[k].vals, val)]
             ELSE er[k]]
    ELSE Append(er, [key |-> key, vals |-> <<val>>])

\* entity_relations[key].append(val), after creating the list when missing
AppendTo(er, key, val) ==
    IF HasKey(er, key)
    THEN [k \in DOMAIN er |->
             IF er[k].key = key
             THEN [key |-> key, vals |-> Append(er[k].vals, val)]
             ELSE er[k]]
    ELSE Append(er, [key |-> key, vals |-> <<val>>])

\* binding[v]["value"] raises KeyError when the variable or its value is missing
OneHop_BindingOk(binding) ==
    \A v \in {"entity1", "entity2", "property"} :
        v \in DOMAIN binding /\ "value" \in DOMAIN binding[v]

RECURSIVE OneHop_Aggregate(_, _)
OneHop_Aggregate(bindings, er) ==
    IF bindings = <<>> THEN er
    ELSE LET binding == Head(bindings)
             entity1 == LastSegment(binding["entity1"]["value"])
             entity2 == LastSegment(binding["entity2"]["value"])
             property_id == LastSegment(binding["property"]["value"])
         IN  OneHop_Aggregate(Tail(bindings),
                              AppendTo(er, <<entity1, entity2>>, property_id))

\* binding.get(v, {}).get("value", "")
ValueOf(binding, v) == Get(Get(binding, v, EmptyDict), "value", EmptyStr)

\* Intermediate with the bug of keeping what follows the "-"
Intermediate_KeepSuffix(s) == Upper(LastSegment(s))

\* .split("/")[-1].split("-")[0].upper()
Intermediate(s) == Upper(BeforeDash(LastSegment(s)))

RECURSIVE ThreeHop_Aggregate(_, _)
ThreeHop_Aggregate(bindings, er) ==
    IF bindings = <<>> THEN er
    ELSE LET binding == Head(bindings)
             entity1 == LastSegment(ValueOf(binding, "entity1"))
             entity2 == LastSegment(ValueOf(binding, "entity2"))
             relation == [relation1 |-> LastSegment(ValueOf(binding, "relation1")),
                          intermediate_x |-> Intermediate(ValueOf(binding, "x")),
                          relation2 |-> LastSegment(ValueOf(binding, "relation2")),
                          intermediate_y |-> Intermediate(ValueOf(binding, "y")),
                          relation3 |-> LastSegment(ValueOf(binding, "relation3")),
                          intermediate_z |-> Intermediate(ValueOf(binding, "z")),
                          relation4 |-> LastSegment(ValueOf(binding, "relation4"))]
         IN  ThreeHop_Aggregate(Tail(bindings),
                                AppendTo(er, <<entity1, entity2>>, relation))

\* [x for relations in entity_relations.values() for x in relations]
RECURSIVE Flatten(_)
Flatten(er) ==
    IF er = <<>> THEN <<>> ELSE Head(er).vals \o Flatten(Tail(er))

\* [relation[field] for relations in entity_relations.values() for relation in relations]
Field(er, field) ==
    LET rels == Flatten(er) IN [k \in DOMAIN rels |-> rels[k][field]]

OneHop_all_property_ids(er) == Flatten(er)

ThreeHop_all_relations(er) ==
    Field(er, "relation1") \o Field(er, "relation2")
        \o Field(er, "relation3") \o Field(er, "relation4")

ThreeHop_all_intermediate_entities(er) ==
    Field(er, "intermediate_x") \o Field(er, "intermediate_y")
        \o Field(er, "intermediate_z")

\* list(set(xs)): the elements of xs once each, in an order the hash decides
UniqueLists(xs) ==
    {s \in [1..Cardinality(Range(xs)) -> Range(xs)] : Range(s) = Range(xs)}

(***************************************************************************)
(* The output lines.                                                       *)
(***************************************************************************)
NoRelation == <<"No Relation">>

\* one line of the 1-hop output for an entry of entity_relations
OneHop_Line(entry, labels_map) ==
    LET labels == [k \in DOMAIN entry.vals |->
                      Get(labels_map, entry.vals[k], NoRelation)]
    IN  entry.key[1] \o <<"#">> \o entry.key[2] \o <<"\t">> \o Join("$", labels)

RECURSIVE OneHop_Lines(_, _)
OneHop_Lines(er, labels_map) ==
    IF er = <<>> THEN <<>>
    ELSE <<OneHop_Line(Head(er), labels_map)>> \o OneHop_Lines(Tail(er), labels_map)

\* ThreeHop_Line with the bug of writing the four relations before the
\* three intermediates
ThreeHop_Line_RelationsFirst(key, relation, plabels, elabels) ==
    key[1] \o <<"#">> \o key[2] \o <<"\t">>
      \o Get(plabels, relation.relation1, relation.relation1) \o <<"#">>
      \o Get(plabels, relation.relation2, relation.relation2) \o <<"#">>
      \o Get(plabels, relation.relation3, relation.relation3) \o <<"#">>
      \o Get(plabels, relation.relation4, relation.relation4) \o <<"#">>
      \o Get(elabels, relation.intermediate_x, relation.intermediate_x) \o <<"#">>
      \o Get(elabels, relation.intermediate_y, relation.intermediate_y) \o <<"#">>
      \o Get(elabels, relation.intermediate_z, relation.intermediate_z)

\* one line of the 4-hop output for one path of a pair
ThreeHop_Line(key, relation, plabels, elabels) ==
    key[1] \o <<"#">> \o key[2] \o <<"\t">>
      \o Get(plabels, relation.relation1, relation.relation1) \o <<"#">>
      \o Get(elabels, relation.intermediate_x, relation.intermediate_x) \o <<"#">>
      \o Get(plabels, relation.relation2, relation.relation2) \o <<"#">>
      \o Get(elabels, relation.intermediate_y, relation.intermediate_y) \o <<"#">>
      \o Get(plabels, relation.relation3, relation.relation3) \o <<"#">>
      \o Get(elabels, relation.intermediate_z, relation.intermediate_z) \o <<"#">>
      \o Get(plabels, relation.relation4, relation.relation4)

RECURSIVE ThreeHop_Lines(_, _, _)
ThreeHop_Lines(er, plabels, elabels) ==
    IF er = <<>> THEN <<>>
    ELSE LET entry == Head(er)
         IN  [k \in DOMAIN entry.vals |->
                 ThreeHop_Line(entry.key, entry.vals[k], plabels, elabels)]
             \o ThreeHop_Lines(Tail(er), plabels, elabels)

(***************************************************************************)
(* process_entity_pairs.  pc is the driver's position: "query" before the  *)
(* graph query of batch batch_idx, "relation_labels" and "entity_labels"   *)
(* before label sub-batch label_i, "write" before the output of the batch, *)
(* "done" after the loop, "aborted" after an uncaught exception.           *)
(* all_property_ids is the list the first label loop slices: the 1-hop     *)
(* all_property_ids, the 4-hop unique_relations.                           *)
(***************************************************************************)
Variants == {"onehop", "threehop"}
BatchSizes == {1, 2}
LabelBatchSizes == {1, 2}

\* the input files: lists of distinct pairs, in the order A, B, C
PairRank(pair) == CASE pair = PairA -> 1 [] pair = PairB -> 2 [] OTHER -> 3

InputLists ==
    {ps \in SeqsUpTo(PairPool, MaxPairs) :
        \A j, k \in DOMAIN ps : j < k => PairRank(ps[j]) < PairRank(ps[k])}

total_batches == Ceil(Len(entity_pairs), batch_size)

\* entity_pairs[batch_start:batch_end]
BatchAt(idx) == Slice(entity_pairs, idx * batch_size, idx * batch_size + batch_size)

LoopPc(idx) == IF idx < total_batches THEN "query" ELSE "done"

NoResult == [made |-> FALSE, batch |-> 0, none |-> FALSE, data |-> EmptyDict]

Init ==
    /\ variant \in Variants
    /\ entity_pairs \in InputLists
    /\ batch_size \in BatchSizes
    /\ label_batch_size \in LabelBatchSizes
    /\ batch_idx = 0
    /\ pc = LoopPc(0)
    /\ result = NoResult
    /\ entity_relations = <<>>
    /\ all_property_ids = <<>>
    /\ unique_entities = <<>>
    /\ label_i = 0
    /\ property_labels = EmptyDict
    /\ entity_labels = EmptyDict
    /\ out_file = <<>>
    /\ events = <<>>
    /\ call = NoCall
    /\ rerun = NoRerun

\* an uncaught exception ends the run
Abort(log) ==
    /\ pc' = "aborted"
    /\ events' = events \o log
    /\ UNCHANGED <<batch_idx, result, entity_relations, all_property_ids,
                   unique_entities, label_i, property_labels, entity_labels,
                   out_file>>

\* EndOfBatch with the bug of sleeping only inside `if result:`
EndOfBatch_PauseOnSuccessOnly(log) ==
    /\ events' = events \o log \o
          (IF log # <<>> /\ log[Len(log)].op = "write"
           THEN <<Sleep(PairBatchSleep)>> ELSE <<>>)
    /\ batch_idx' = batch_idx + 1
    /\ pc' = LoopPc(batch_idx + 1)

\* the sleep that ends the body of the batch loop, and the next iteration
EndOfBatch(log) ==
    /\ events' = events \o log \o <<Sleep(PairBatchSleep)>>
    /\ batch_idx' = batch_idx + 1
    /\ pc' = LoopPc(batch_idx + 1)

num_batches == Ceil(Len(all_property_ids), label_batch_size)

\* num_batches_entity with the bug of rounding down: the last, partial
\* sub-batch of entity codes is never requested
num_batches_entity_Floor == Len(unique_entities) \div label_batch_size

num_batches_entity == Ceil(Len(unique_entities), label_batch_size)

\* OneHop_QueryBatch with the bug of keeping the label map of the batch before
OneHop_QueryBatch_KeepsLabels ==
    /\ variant = "onehop"
    /\ pc = "query"
    /\ \E response \in SparqlResponses(variant, BatchAt(batch_idx)) :
        LET r == OneHop_batch_sparql_query(BatchAt(batch_idx), response)
            res == [made |-> TRUE, batch |-> batch_idx, none |-> r.none, data |-> r.data]
        IN  IF r.raised
            THEN Abort(r.log)
            ELSE IF ~Truthy(r)
            THEN /\ result' = res
                 /\ EndOfBatch(r.log)
                 /\ UNCHANGED <<entity_relations, all_property_ids, unique_entities,
                                label_i, property_labels, entity_labels, out_file>>
            ELSE IF ~HasBindings(r.data)
                    \/ \E k \in DOMAIN r.data.results.bindings :
                          ~OneHop_BindingOk(r.data.results.bindings[k])
            THEN /\ pc' = "aborted"
                 /\ result' = res
                 /\ events' = events \o r.log
                 /\ UNCHANGED <<batch_idx, entity_relations, all_property_ids,
                                unique_entities, label_i, property_labels,
                                entity_labels, out_file>>
            ELSE LET er == OneHop_Aggregate(r.data.results.bindings, <<>>)
                     ids == OneHop_all_property_ids(er)
                 IN  /\ result' = res
                     /\ entity_relations' = er
                     /\ all_property_ids' = ids
                     /\ property_labels' = property_labels
                     /\ label_i' = 0
                     /\ pc' = IF Ceil(Len(ids), label_batch_size) > 0
                              THEN "relation_labels" ELSE "write"
                     /\ events' = events \o r.log
                     /\ UNCHANGED <<batch_idx, unique_entities, entity_labels, out_file>>
    /\ UNCHANGED <<variant, entity_pairs, batch_size, label_batch_size, call>>

OneHop_QueryBatch ==
    /\ variant = "onehop"
    /\ pc = "query"
    /\ \E response \in SparqlResponses(variant, BatchAt(batch_idx)) :
        LET r == OneHop_batch_sparql_query(BatchAt(batch_idx), response)
            res == [made |-> TRUE, batch |-> batch_idx, none |-> r.none, data |-> r.data]
        IN  IF r.raised
            THEN Abort(r.log)
            ELSE IF ~Truthy(r)
            THEN /\ result' = res
                 /\ EndOfBatch(r.log)
                 /\ UNCHANGED <<entity_relations, all_property_ids, unique_entities,
                                label_i, property_labels, entity_labels, out_file>>
            ELSE IF ~HasBindings(r.data)
                    \/ \E k \in DOMAIN r.data.results.bindings :
                          ~OneHop_BindingOk(r.data.results.bindings[k])
            THEN /\ pc' = "aborted"
                 /\ result' = res
                 /\ events' = events \o r.log
                 /\ UNCHANGED <<batch_idx, entity_relations, all_property_ids,
                                unique_entities, label_i, property_labels,
                                entity_labels, out_file>>
            ELSE LET er == OneHop_Aggregate(r.data.results.bindings, <<>>)
                     ids == OneHop_all_property_ids(er)
                 IN  /\ result' = res
                     /\ entity_relations' = er
                     /\ all_property_ids' = ids
                     /\ property_labels' = EmptyDict
                     /\ label_i' = 0
                     /\ pc' = IF Ceil(Len(ids), label_batch_size) > 0
                              THEN "relation_labels" ELSE "write"
                     /\ events' = events \o r.log
                     /\ UNCHANGED <<batch_idx, unique_entities, entity_labels, out_file>>
    /\ UNCHANGED <<variant, entity_pairs, batch_size, label_batch_size, call>>

\* OneHop_LabelBatch with the bug of not sleeping after a label request
OneHop_LabelBatch_NoPause ==
    /\ variant = "onehop"
    /\ pc = "relation_labels"
    /\ label_i < num_batches
    /\ LET batch == Slice(all_property_ids, label_i * label_batch_size,
                          (label_i + 1) * label_batch_size)
       IN  \E response \in LabelResponses(batch) :
            LET c == CallOf(variant, batch, response)
            IN  /\ call' = c
                /\ IF c.ret.raised
                   THEN Abort(<<LabelRequest(batch)>>)
                   ELSE /\ property_labels' = Update(property_labels, c.ret.labels)
                        /\ events' = events \o <<LabelRequest(batch)>>
                        /\ label_i' = label_i + 1
                        /\ pc' = IF label_i + 1 < num_batches
                                 THEN "relation_labels" ELSE "write"
                        /\ UNCHANGED <<batch_idx, result, entity_relations,
                                       all_property_ids, unique_entities,
                                       entity_labels, out_file>>
    /\ UNCHANGED <<variant, entity_pairs, batch_size, label_batch_size>>

OneHop_LabelBatch ==
    /\ variant = "onehop"
    /\ pc = "relation_labels"
    /\ label_i < num_batches
    /\ LET batch == Slice(all_property_ids, label_i * label_batch_size,
                          (label_i + 1) * label_batch_size)
       IN  \E response \in LabelResponses(batch) :
            LET c == CallOf(variant, batch, response)
            IN  /\ call' = c
                /\ IF c.ret.raised
                   THEN Abort(<<LabelRequest(batch)>>)
                   ELSE /\ property_labels' = Update(property_labels, c.ret.labels)
                        /\ events' = events \o <<LabelRequest(batch), Sleep(LabelSleep)>>
                        /\ label_i' = label_i + 1
                        /\ pc' = IF label_i + 1 < num_batches
                                 THEN "relation_labels" ELSE "write"
                        /\ UNCHANGED <<batch_idx, result, entity_relations,
                                       all_property_ids, unique_entities,
                                       entity_labels, out_file>>
    /\ UNCHANGED <<variant, entity_pairs, batch_size, label_batch_size>>

\* OneHop_WriteBatch with the bug of opening the output file for writing
OneHop_WriteBatch_Truncating ==
    /\ variant = "onehop"
    /\ pc = "write"
    /\ LET lines == OneHop_Lines(entity_relations, property_labels)
       IN  /\ out_file' = lines
           /\ EndOfBatch(<<WriteLines(lines)>>)
    /\ UNCHANGED <<variant, entity_pairs, batch_size, label_batch_size, result,
                   entity_relations, all_property_ids, unique_entities, label_i,
                   property_labels, entity_labels, call>>

OneHop_WriteBatch ==
    /\ variant = "onehop"
    /\ pc = "write"
    /\ LET lines == OneHop_Lines(entity_relations, property_labels)
       IN  /\ out_file' = out_file \o lines
           /\ EndOfBatch(<<WriteLines(lines)>>)
    /\ UNCHANGED <<variant, entity_pairs, batch_size, label_batch_size, result,
                   entity_relations, all_property_ids, unique_entities, label_i,
                   property_labels, entity_labels, call>>

ThreeHop_QueryBatch ==
    /\ variant = "threehop"
    /\ pc = "query"
    /\ \E response \in SparqlResponses(variant, BatchAt(batch_idx)) :
        LET r == ThreeHop_batch_sparql_query(BatchAt(batch_idx), response)
            res == [made |-> TRUE, batch |-> batch_idx, none |-> r.none, data |-> r.data]
        IN  IF r.raised
            THEN Abort(r.log)
            ELSE IF ~Truthy(r)
            THEN /\ result' = res
                 /\ EndOfBatch(r.log)
                 /\ UNCHANGED <<entity_relations, all_property_ids, unique_entities,
                                label_i, property_labels, entity_labels, out_file>>
            ELSE IF ~HasBindings(r.data)
            THEN /\ pc' = "aborted"
                 /\ result' = res
                 /\ events' = events \o r.log
                 /\ UNCHANGED <<batch_idx, entity_relations, all_property_ids,
                                unique_entities, label_i, property_labels,
                                entity_labels, out_file>>
            ELSE LET er == ThreeHop_Aggregate(r.data.results.bindings, <<>>)
                 IN  \E unique_relations \in UniqueLists(ThreeHop_all_relations(er)),
                        uniq_entities \in UniqueLists(ThreeHop_all_intermediate_entities(er)) :
                        /\ result' = res
                        /\ entity_relations' = er
                        /\ all_property_ids' = unique_relations
                        /\ unique_entities' = uniq_entities
                        /\ property_labels' = EmptyDict
                        /\ label_i' = 0
                        /\ IF Ceil(Len(unique_relations), label_batch_size) > 0
                           THEN /\ pc' = "relation_labels"
                                /\ UNCHANGED entity_labels
                           ELSE /\ pc' = IF Ceil(Len(uniq_entities), label_batch_size) > 0
                                         THEN "entity_labels" ELSE "write"
                                /\ entity_labels' = EmptyDict
                        /\ events' = events \o r.log
                        /\ UNCHANGED <<batch_idx, out_file>>
    /\ UNCHANGED <<variant, entity_pairs, batch_size, label_batch_size, call>>

ThreeHop_RelationLabelBatch ==
    /\ variant = "threehop"
    /\ pc = "relation_labels"
    /\ label_i < num_batches
    /\ LET label_batch == Slice(all_property_ids, label_i * label_batch_size,
                                label_i * label_batch_size + label_batch_size)
       IN  \E response \in LabelResponses(label_batch) :
            LET c == CallOf(variant, label_batch, response)
            IN  /\ call' = c
                /\ IF c.ret.raised
                   THEN Abort(<<LabelRequest(label_batch)>>)
                   ELSE /\ property_labels' = Update(property_labels, c.ret.labels)
                        /\ events' = events \o
                              (IF c.ret.requested THEN <<LabelRequest(label_batch)>> ELSE <<>>)
                              \o <<Sleep(LabelSleep)>>
                        /\ IF label_i + 1 < num_batches
                           THEN /\ label_i' = label_i + 1
                                /\ pc' = "relation_labels"
                                /\ UNCHANGED entity_labels
                           ELSE /\ label_i' = 0
                                /\ entity_labels' = EmptyDict
                                /\ pc' = IF num_batches_entity > 0
                                         THEN "entity_labels" ELSE "write"
                        /\ UNCHANGED <<batch_idx, result, entity_relations,
                                       all_property_ids, unique_entities, out_file>>
    /\ UNCHANGED <<variant, entity_pairs, batch_size, label_batch_size>>

ThreeHop_EntityLabelBatch ==
    /\ variant = "threehop"
    /\ pc = "entity_labels"
    /\ label_i < num_batches_entity
    /\ LET label_batch == Slice(unique_entities, label_i * label_batch_size,
                                label_i * label_batch_size + label_batch_size)
       IN  \E response \in LabelResponses(label_batch) :
            LET c == CallOf(variant, label_batch, response)
            IN  /\ call' = c
                /\ IF c.ret.raised
                   THEN Abort(<<LabelRequest(label_batch)>>)
                   ELSE /\ entity_labels' = Update(entity_labels, c.ret.labels)
                        /\ events' = events \o
                              (IF c.ret.requested THEN <<LabelRequest(label_batch)>> ELSE <<>>)
                              \o <<Sleep(LabelSleep)>>
                        /\ label_i' = label_i + 1
                        /\ pc' = IF label_i + 1 < num_batches_entity
                                 THEN "entity_labels" ELSE "write"
                        /\ UNCHANGED <<batch_idx, result, entity_relations,
                                       all_property_ids, unique_entities,
                                       property_labels, out_file>>
    /\ UNCHANGED <<variant, entity_pairs, batch_size, label_batch_size>>

ThreeHop_WriteBatch ==
    /\ variant = "threehop"
    /\ pc = "write"
    /\ LET lines == ThreeHop_Lines(entity_relations, property_labels, entity_labels)
       IN  /\ out_file' = out_file \o lines
           /\ EndOfBatch(<<WriteLines(lines)>>)
    /\ UNCHANGED <<variant, entity_pairs, batch_size, label_batch_size, result,
                   entity_relations, all_property_ids, unique_entities, label_i,
                   property_labels, entity_labels, call>>

\* one invocation of the driver: rerun is not the driver's to change
Next ==
    \/ OneHop_QueryBatch /\ UNCHANGED rerun
    \/ OneHop_LabelBatch /\ UNCHANGED rerun
    \/ OneHop_WriteBatch /\ UNCHANGED rerun
    \/ ThreeHop_QueryBatch /\ UNCHANGED rerun
    \/ ThreeHop_RelationLabelBatch /\ UNCHANGED rerun
    \/ ThreeHop_EntityLabelBatch /\ UNCHANGED rerun
    \/ ThreeHop_WriteBatch /\ UNCHANGED rerun

Spec == Init /\ [][Next]_vars

(***************************************************************************)
(* The resolver on its own: find_property_labels_batch called with any     *)
(* list of codes (the empty one included) and any response.                *)
(***************************************************************************)
CodePool == {P31, P279, QX}
Statuses == {HTTP_OK, 404, 500}

EntityShapes(c) == {EntityWithEn(c), EntityOtherLanguage(c), EntityNoLabels(c)}

\* the `entities` containers: any set of codes present, each in any shape
EntityMaps ==
    UNION {{f \in [S -> UNION {EntityShapes(c) : c \in S}] :
               \A c \in S : f[c] \in EntityShapes(c)} : S \in SUBSET CodePool}

ResolverResponses ==
    {BlankBody(st) : st \in Statuses}
    \cup {JsonBody(st, [error |-> <<"no-such-entity">>]) : st \in Statuses}
    \cup {JsonBody(st, [entities |-> f]) : st \in Statuses, f \in EntityMaps}

InitResolver ==
    /\ variant \in Variants
    /\ entity_pairs = <<>>
    /\ batch_size = 1
    /\ label_batch_size = 1
    /\ batch_idx = 0
    /\ pc = "done"
    /\ result = NoResult
    /\ entity_relations = <<>>
    /\ all_property_ids = <<>>
    /\ unique_entities = <<>>
    /\ label_i = 0
    /\ property_labels = EmptyDict
    /\ entity_labels = EmptyDict
    /\ out_file = <<>>
    /\ events = <<>>
    /\ call = NoCall
    /\ rerun = NoRerun

ResolveCall ==
    /\ ~call.made
    /\ \E property_ids \in SeqsUpTo(CodePool, MaxCodes), response \in ResolverResponses :
          call' = CallOf(variant, property_ids, response)
    /\ UNCHANGED <<variant, driverVars, rerun>>

NextResolver == ResolveCall

SpecResolver == InitResolver /\ [][NextResolver]_vars

(***************************************************************************)
(* The driver invoked twice on the same input file and the same output     *)
(* file.  The first run is a run of the driver against endpoints in a      *)
(* steady condition: the graph endpoint fails, answers without bindings or *)
(* answers with every binding it has for the batch, and the lookup service *)
(* is up, down or blank during the whole run.  Its exchanges with the two  *)
(* endpoints are recorded.  The second run is a new process (nothing       *)
(* but the output file is kept) to which the endpoints answer as they did  *)
(* in the first run (SparqlResponses, LabelResponses).  The order in which  *)
(* list(set(...)) hands out the codes is free again in the second run.     *)
(***************************************************************************)
DriverStep ==
    \/ OneHop_QueryBatch
    \/ OneHop_LabelBatch
    \/ OneHop_WriteBatch
    \/ ThreeHop_QueryBatch
    \/ ThreeHop_RelationLabelBatch
    \/ ThreeHop_EntityLabelBatch
    \/ ThreeHop_WriteBatch

\* what the step from the current state exchanged with an endpoint: the
\* request and the response, read from what the step did with it
Exchange ==
    IF pc = "query"
    THEN [kind |-> pc, batch |-> batch_idx, request |-> BatchAt(batch_idx),
          response |-> IF pc' = "aborted" /\ result' = result
                       THEN BlankBody(HTTP_OK)
                       ELSE IF result'.none THEN BlankBody(500)
                       ELSE JsonBody(HTTP_OK, result'.data)]
    ELSE [kind |-> pc, batch |-> batch_idx, request |-> Range(call'.property_ids),
          response |-> call'.response]

\* every binding the graph endpoint has for the batch, once each
FullAnswer(v, batch) ==
    LET pool == BindingPool(v, batch)
    IN  CHOOSE bs \in SeqsUpTo(pool, MaxBindings) :
            /\ Len(bs) = Min(Cardinality(pool), MaxBindings)
            /\ \A j, k \in DOMAIN bs : j # k => bs[j] # bs[k]

\* the exchange is one of endpoints in a steady condition
Steady(e) ==
    IF e.kind = "query"
    THEN IF e.response.empty THEN TRUE
         ELSE IF ~HasBindings(e.response.data) THEN TRUE
         ELSE e.response.data.results.bindings = FullAnswer(variant, e.request)
    ELSE \A x \in Range(rerun.transcript) :
            x.kind # "query" =>
                /\ x.response.status = e.response.status
                /\ x.response.empty = e.response.empty

FirstRun ==
    /\ rerun.n = 0
    /\ DriverStep
    /\ pc # "write" => Steady(Exchange)
    /\ rerun' = IF pc = "write" THEN rerun
                ELSE [rerun EXCEPT !.transcript = Append(@, Exchange)]

\* the driver is started again: a new process, the same files
Rerun ==
    /\ rerun.n = 0
    /\ pc \in {"done", "aborted"}
    /\ rerun' = [rerun EXCEPT !.n = 1, !.lines = out_file]
    /\ batch_idx' = 0
    /\ pc' = LoopPc(0)
    /\ result' = NoResult
    /\ entity_relations' = <<>>
    /\ all_property_ids' = <<>>
    /\ unique_entities' = <<>>
    /\ label_i' = 0
    /\ property_labels' = EmptyDict
    /\ entity_labels' = EmptyDict
    /\ events' = <<>>
    /\ call' = NoCall
    /\ UNCHANGED <<variant, entity_pairs, batch_size, label_batch_size, out_file>>

SecondRun ==
    /\ rerun.n = 1
    /\ DriverStep
    /\ UNCHANGED rerun

NextTwice ==
    \/ FirstRun
    \/ Rerun
    \/ SecondRun

SpecTwice == Init /\ [][NextTwice]_vars

(***************************************************************************)
(* The parsing of one binding on its own: the driver right after a graph   *)
(* query that answered with one binding made of any raw values, then the   *)
(* label loops and the write of that batch.                                *)
(***************************************************************************)
\* raw values of a binding variable: with and without "/", "-", lowercase
RawValues ==
    {EntityUri(<<"Qx">>),
     StatementUri(<<"Qx">>, <<"1ab2">>),
     StatementUri(<<"qy">>, <<"1ab2", "-", "e">>),
     <<"qx", "-", "1ab2">>,
     <<"e", "/", "-", "qx">>,
     <<"P1", "/">>,
     PropUri(P1),
     EmptyStr}

RawBindings(v) ==
    IF v = "onehop"
    THEN {[entity1 |-> Val(a), entity2 |-> Val(EntityUri(<<"Q2">>)),
           property |-> Val(r)] : a \in RawValues, r \in RawValues}
    ELSE {[entity1 |-> Val(a), entity2 |-> Val(EntityUri(<<"Q2">>)),
           relation1 |-> Val(r), x |-> Val(x),
           relation2 |-> Val(PropUri(P2)), y |-> Val(EntityUri(QX)),
           relation3 |-> Val(PropUri(P2)), z |-> Val(EntityUri(QX)),
           relation4 |-> Val(PropUri(P2))] :
             a \in RawValues, r \in RawValues, x \in RawValues}

InitAggregate ==
    /\ variant \in Variants
    /\ entity_pairs = <<PairA>>
    /\ batch_size = 1
    /\ label_batch_size \in LabelBatchSizes
    /\ batch_idx = 0
    /\ pc = "aggregate"
    /\ \E b \in RawBindings(variant) :
          result = [made |-> TRUE, batch |-> 0, none |-> FALSE,
                    data |-> [results |-> [bindings |-> <<b>>]]]
    /\ entity_relations = <<>>
    /\ all_property_ids = <<>>
    /\ unique_entities = <<>>
    /\ label_i = 0
    /\ property_labels = EmptyDict
    /\ entity_labels = EmptyDict
    /\ out_file = <<>>
    /\ events = <<SparqlRequest(<<PairA>>)>>
    /\ call = NoCall
    /\ rerun = NoRerun

\* the loop over the bindings and the lists of codes to resolve
AggregateResult ==
    /\ pc = "aggregate"
    /\ IF variant = "onehop"
       THEN LET er == OneHop_Aggregate(result.data.results.bindings, <<>>)
                ids == OneHop_all_property_ids(er)
            IN  /\ entity_relations' = er
                /\ all_property_ids' = ids
                /\ pc' = IF Ceil(Len(ids), label_batch_size) > 0
                         THEN "relation_labels" ELSE "write"
                /\ UNCHANGED <<unique_entities, entity_labels>>
       ELSE LET er == ThreeHop_Aggregate(result.data.results.bindings, <<>>)
            IN  \E unique_relations \in UniqueLists(ThreeHop_all_relations(er)),
                   uniq_entities \in UniqueLists(ThreeHop_all_intermediate_entities(er)) :
                   /\ entity_relations' = er
                   /\ all_property_ids' = unique_relations
                   /\ unique_entities' = uniq_entities
                   /\ IF Ceil(Len(unique_relations), label_batch_size) > 0
                      THEN /\ pc' = "relation_labels"
                           /\ UNCHANGED entity_labels
                      ELSE /\ pc' = IF Ceil(Len(uniq_entities), label_batch_size) > 0
                                    THEN "entity_labels" ELSE "write"
                           /\ entity_labels' = EmptyDict
    /\ property_labels' = EmptyDict
    /\ label_i' = 0
    /\ UNCHANGED <<variant, entity_pairs, batch_size, label_batch_size, batch_idx,
                   result, out_file, events, call, rerun>>

NextAggregate ==
    \/ AggregateResult
    \/ OneHop_LabelBatch /\ UNCHANGED rerun
    \/ OneHop_WriteBatch /\ UNCHANGED rerun
    \/ ThreeHop_RelationLabelBatch /\ UNCHANGED rerun
    \/ ThreeHop_EntityLabelBatch /\ UNCHANGED rerun
    \/ ThreeHop_WriteBatch /\ UNCHANGED rerun

SpecAggregate == InitAggregate /\ [][NextAggregate]_vars

(***************************************************************************)
(* Helpers of the properties: reading the event log and the output lines.  *)
(***************************************************************************)
IsSleep(e, d) == e.op = "sleep" /\ e.arg = d

\* the index of the last graph query in the log (0 when there is none)
LastSparql ==
    LET qs == {k \in DOMAIN events : events[k].op = "sparql"}
    IN  IF qs = {} THEN 0 ELSE CHOOSE k \in qs : \A j \in qs : j <= k

\* the lists of codes of the label requests issued since the last graph query
RECURSIVE LabelArgs(_)
LabelArgs(es) ==
    IF es = <<>> THEN <<>>
    ELSE (IF Head(es).op = "labels" THEN <<Head(es).arg>> ELSE <<>>)
         \o LabelArgs(Tail(es))

LabelRequestsOfBatch == LabelArgs(SubSeq(events, LastSparql + 1, Len(events)))

\* the bindings of the last graph query that answered with a bindings list
BindingsOfResult == result.data.results.bindings

\* the pair-batch has just ended with its lines written
JustWritten ==
    /\ Len(events) >= 2
    /\ events[Len(events) - 1].op = "write"
    /\ IsSleep(events[Len(events)], PairBatchSleep)

LinesJustWritten == events[Len(events) - 1].arg

\* the {entity1}#{entity2} a line starts with, as a pair
PairOfLine(line) ==
    LET hash == CHOOSE k \in DOMAIN line :
                    line[k] = "#" /\ \A j \in 1..(k - 1) : line[j] # "#"
        tab == CHOOSE k \in DOMAIN line :
                    line[k] = "\t" /\ \A j \in 1..(k - 1) : line[j] # "\t"
    IN  <<SubSeq(line, 1, hash - 1), SubSeq(line, hash + 1, tab - 1)>>

\* what follows the TAB of a line
TextOfLine(line) ==
    LET tab == CHOOSE k \in DOMAIN line :
                    line[k] = "\t" /\ \A j \in 1..(k - 1) : line[j] # "\t"
    IN  SubSeq(line, tab + 1, Len(line))

NoDuplicates(s) == \A j, k \in DOMAIN s : j # k => s[j] # s[k]

RECURSIVE Concat(_)
Concat(ss) == IF ss = <<>> THEN <<>> ELSE Head(ss) \o Concat(Tail(ss))

(***************************************************************************)
(* C1.  When batch_sparql_query returns None for a pair-batch, the step    *)
(* appends no line to the output, issues no label lookup, and moves the    *)
(* driver to the query of the next batch (or to the end after the last).   *)
(***************************************************************************)
C1_NullSkipsBatch ==
    [][(pc = "query" /\ result' # result /\ result'.none) =>
         /\ out_file' = out_file
         /\ call' = call
         /\ \A k \in (Len(events) + 1)..Len(events') :
               events'[k].op \notin {"labels", "write"}
         /\ batch_idx' = batch_idx + 1
         /\ pc' = IF batch_idx' < total_batches THEN "query" ELSE "done"]_vars

\* a failed first batch of two, with the second batch about to be queried
C1_Witness ==
    /\ result.made /\ result.none /\ result.batch = 0
    /\ batch_idx = 1 /\ pc = "query"
    /\ out_file = <<>>

(***************************************************************************)
(* C2.  For a non-empty list of codes and every lookup response, of any    *)
(* status and with any set of entities present, the resolver of either     *)
(* variant returns a mapping whose key set is exactly the set of the       *)
(* requested codes.                                                        *)
(***************************************************************************)
C2_KeysAreRequestedCodes ==
    (call.made /\ call.property_ids # <<>>) =>
        /\ ~call.ret.raised
        /\ DOMAIN call.ret.labels = Range(call.property_ids)

(***************************************************************************)
(* C3.  A requested code maps to its English label exactly when the status *)
(* is 200 and the response holds an entity for the code with an English    *)
(* label; in every other case (another status, the code absent from the    *)
(* response, an entity without English label) the code maps to itself.     *)
(***************************************************************************)
HasEnglishLabel(response, c) ==
    /\ response.status = HTTP_OK
    /\ ~response.empty
    /\ "entities" \in DOMAIN response.data
    /\ c \in DOMAIN response.data.entities
    /\ "labels" \in DOMAIN response.data.entities[c]
    /\ "en" \in DOMAIN response.data.entities[c].labels

C3_LabelOrIdentity ==
    call.made =>
        \A c \in Range(call.property_ids) :
            /\ ~call.ret.raised
            /\ c \in DOMAIN call.ret.labels
            /\ IF HasEnglishLabel(call.response, c)
               THEN call.ret.labels[c] = EnLabel(c) /\ call.ret.labels[c] # c
               ELSE call.ret.labels[c] = c

(***************************************************************************)
(* C4.  Called with an empty list of codes, the resolver of either variant *)
(* issues no request and returns the empty mapping.                        *)
(***************************************************************************)
C4_EmptyInputNoRequest ==
    (call.made /\ call.property_ids = <<>>) =>
        /\ ~call.ret.requested
        /\ ~call.ret.raised
        /\ call.ret.labels = EmptyDict

(***************************************************************************)
(* C5.  In the 1-hop variant a batch whose query succeeded appends exactly *)
(* one line for each entity pair of the batch, and the line of a pair with *)
(* no binding is {entity1}#{entity2}<TAB>No Relation.                      *)
(***************************************************************************)
C5_OneLinePerPair ==
    (variant = "onehop" /\ JustWritten) =>
        LET batch == BatchAt(batch_idx - 1)
            lines == LinesJustWritten
        IN  /\ Len(lines) = Len(batch)
            /\ \A p \in DOMAIN batch :
                  /\ Cardinality({k \in DOMAIN lines :
                                    PairOfLine(lines[k]) = batch[p]}) = 1
                  /\ ~HasKey(entity_relations, batch[p]) =>
                        \E k \in DOMAIN lines :
                            /\ PairOfLine(lines[k]) = batch[p]
                            /\ TextOfLine(lines[k]) = NoRelation

(***************************************************************************)
(* C6.  Within one pair-batch the codes handed to the resolver are         *)
(* deduplicated in both variants: no code occurs twice in the requests of  *)
(* the relation codes, nor in those of the intermediate-entity codes, and  *)
(* the number of requests is ceil(distinct codes / label_batch_size) for   *)
(* each of the two kinds.                                                  *)
(***************************************************************************)
DistinctRelationCodes ==
    IF variant = "onehop"
    THEN Range(OneHop_all_property_ids(entity_relations))
    ELSE Range(ThreeHop_all_relations(entity_relations))

DistinctEntityCodes ==
    IF variant = "onehop" THEN {}
    ELSE Range(ThreeHop_all_intermediate_entities(entity_relations))

C6_LabelCodesDeduplicated ==
    (pc = "write") =>
        LET reqs == LabelRequestsOfBatch
            nrel == Ceil(Cardinality(DistinctRelationCodes), label_batch_size)
            nent == Ceil(Cardinality(DistinctEntityCodes), label_batch_size)
        IN  /\ Len(reqs) = nrel + nent
            /\ NoDuplicates(Concat(SubSeq(reqs, 1, nrel)))
            /\ NoDuplicates(Concat(SubSeq(reqs, nrel + 1, Len(reqs))))

(***************************************************************************)
(* C7.  Aggregation groups the bindings of a batch by (entity1, entity2):  *)
(* the groups are in the order of the first occurrence of their pair in    *)
(* the binding list, each group holds every binding of its pair in arrival *)
(* order, identical bindings included, and the lines written for the batch *)
(* follow the order of the groups.                                         *)
(***************************************************************************)
\* the pair of a binding, and what the aggregation keeps of it
KeyOfBinding(b) ==
    <<LastSegment(ValueOf(b, "entity1")), LastSegment(ValueOf(b, "entity2"))>>

KeptOfBinding(b) ==
    IF variant = "onehop"
    THEN LastSegment(ValueOf(b, "property"))
    ELSE [relation1 |-> LastSegment(ValueOf(b, "relation1")),
          intermediate_x |-> Intermediate(ValueOf(b, "x")),
          relation2 |-> LastSegment(ValueOf(b, "relation2")),
          intermediate_y |-> Intermediate(ValueOf(b, "y")),
          relation3 |-> LastSegment(ValueOf(b, "relation3")),
          intermediate_z |-> Intermediate(ValueOf(b, "z")),
          relation4 |-> LastSegment(ValueOf(b, "relation4"))]

\* the bindings in group order: those of the first binding's pair in arrival
\* order, then the same for the bindings that are left
RECURSIVE GroupedBindings(_)
GroupedBindings(bs) ==
    IF bs = <<>> THEN <<>>
    ELSE LET SamePair(b) == KeyOfBinding(b) = KeyOfBinding(Head(bs))
             OtherPair(b) == ~SamePair(b)
         IN  SelectSeq(bs, SamePair) \o GroupedBindings(SelectSeq(bs, OtherPair))

\* entity_relations as the list of its (pair, binding) entries, group after group
RECURSIVE GroupEntries(_)
GroupEntries(er) ==
    IF er = <<>> THEN <<>>
    ELSE [k \in DOMAIN Head(er).vals |-> <<Head(er).key, Head(er).vals[k]>>]
         \o GroupEntries(Tail(er))

\* the driver has just aggregated the bindings of a batch: no label request yet
JustAggregated ==
    /\ pc \in {"relation_labels", "entity_labels", "write"}
    /\ events[Len(events)].op = "sparql"

\* the first element of every run of equal elements
RECURSIVE RunHeads(_)
RunHeads(s) ==
    IF Len(s) <= 1 THEN s
    ELSE IF s[1] = s[2] THEN RunHeads(Tail(s))
    ELSE <<s[1]>> \o RunHeads(Tail(s))

C7_GroupsInFirstSeenOrder ==
    /\ JustAggregated =>
          LET grouped == GroupedBindings(BindingsOfResult)
              entries == GroupEntries(entity_relations)
          IN  /\ NoDuplicates([k \in DOMAIN entity_relations |-> entity_relations[k].key])
              /\ \A k \in DOMAIN entity_relations : entity_relations[k].vals # <<>>
              /\ Len(entries) = Len(grouped)
              /\ \A p \in DOMAIN grouped :
                    entries[p] = <<KeyOfBinding(grouped[p]), KeptOfBinding(grouped[p])>>
    /\ JustWritten =>
          LET lines == LinesJustWritten
              grouped == GroupedBindings(BindingsOfResult)
              keys == [p \in DOMAIN grouped |-> KeyOfBinding(grouped[p])]
              groups == IF variant = "onehop" THEN RunHeads(keys) ELSE keys
          IN  /\ Len(lines) = Len(groups)
              /\ \A k \in DOMAIN lines : PairOfLine(lines[k]) = groups[k]

\* the bindings of pair A, pair B, pair A again: two groups, A first with both
C7_Witness ==
    /\ variant = "onehop" /\ JustWritten
    /\ Len(BindingsOfResult) = 3
    /\ KeyOfBinding(BindingsOfResult[1]) = PairA
    /\ KeyOfBinding(BindingsOfResult[2]) = PairB
    /\ BindingsOfResult[3] = BindingsOfResult[1]
    /\ Len(entity_relations) = 2
    /\ entity_relations[1] = [key |-> PairA, vals |-> <<P31, P31>>]
    /\ Len(LinesJustWritten) = 2
    /\ PairOfLine(LinesJustWritten[1]) = PairA

(***************************************************************************)
(* C8.  On a response with status 200 whose body is blank or has no        *)
(* `entities` container, the resolver of either variant returns the        *)
(* identity mapping of the requested codes.                                *)
(***************************************************************************)
C8_MalformedBodyFallsBack ==
    (/\ call.made
     /\ call.property_ids # <<>>
     /\ call.response.status = HTTP_OK
     /\ call.response.empty \/ "entities" \notin DOMAIN call.response.data) =>
        /\ ~call.ret.raised
        /\ call.ret.labels = [c \in Range(call.property_ids) |-> c]

(***************************************************************************)
(* C9.  No response of either endpoint makes the driver abort: every run   *)
(* goes on to the last pair-batch.                                         *)
(***************************************************************************)
C9_DriverNeverAborts == pc # "aborted"

(***************************************************************************)
(* C10.  Every pair-batch that ends, with its query failed or succeeded,   *)
(* ends with the 1.5 pause; every graph query but the first comes right    *)
(* after that pause; and a failed query is followed by the 5-unit pause    *)
(* before the driver sees None, so a failed batch leaves the log ending    *)
(* query, pause 5, pause 1.5.                                              *)
(***************************************************************************)
C10_PauseAfterEveryBatch ==
    /\ \A k \in DOMAIN events :
          (events[k].op = "sparql" /\ k > 1) =>
              IsSleep(events[k - 1], PairBatchSleep)
    /\ (pc \in {"query", "done"} /\ batch_idx > 0) =>
          /\ result.made /\ result.batch = batch_idx - 1
          /\ IsSleep(events[Len(events)], PairBatchSleep)
          /\ Cardinality({k \in DOMAIN events : events[k].op = "sparql"}) = batch_idx
          /\ result.none =>
                /\ Len(events) >= 3
                /\ events[Len(events) - 2] = SparqlRequest(BatchAt(batch_idx - 1))
                /\ IsSleep(events[Len(events) - 1], BackPressureSleep)
    /\ \A k \in DOMAIN events :
          IsSleep(events[k], BackPressureSleep) =>
              /\ k > 1 /\ events[k - 1].op = "sparql"
              /\ k < Len(events) /\ IsSleep(events[k + 1], PairBatchSleep)

\* a batch whose lines were written, then a batch whose query failed
C10_Witness ==
    /\ pc = "done" /\ batch_idx = 2
    /\ result.none
    /\ out_file # <<>>
    /\ Cardinality({k \in DOMAIN events : IsSleep(events[k], PairBatchSleep)
                       /\ (k = Len(events) \/ events[k + 1].op = "sparql")}) = 2

(***************************************************************************)
(* C11.  Every request to the label-lookup endpoint that returns is        *)
(* followed at once by the 1.5 pause, so between a label request and the   *)
(* next remote request of the run (a label request of the same loop, the   *)
(* first entity request after the last relation request, or the graph      *)
(* query of the next pair-batch) there is at least one pause.  A label     *)
(* request with no pause after it is the last event of an aborted run.     *)
(***************************************************************************)
IsRemoteRequest(e) == e.op \in {"labels", "sparql"}

C11_PauseAfterEveryLabelRequest ==
    /\ \A k \in DOMAIN events :
          events[k].op = "labels" =>
              \/ k < Len(events) /\ IsSleep(events[k + 1], LabelSleep)
              \/ k = Len(events) /\ pc = "aborted"
    /\ \A j, k \in DOMAIN events :
          (j < k /\ events[j].op = "labels" /\ IsRemoteRequest(events[k])) =>
              \E m \in (j + 1)..(k - 1) : events[m].op = "sleep"

\* a finished 4-hop run of two pair-batches, each with a relation request and
\* an entity request
C11_Witness ==
    /\ variant = "threehop" /\ pc = "done" /\ batch_idx = 2
    /\ \E j, k, l \in DOMAIN events :
          /\ j < k /\ k < l
          /\ events[j].op = "labels" /\ events[j].arg = <<P1>>
          /\ events[k].op = "labels" /\ EmptyStr \in Range(events[k].arg)
          /\ \A m \in (j + 1)..(k - 1) : events[m].op = "sleep"
          /\ events[l].op = "labels" /\ QX \in Range(events[l].arg)
          /\ \E m \in (k + 1)..(l - 1) : events[m].op = "sparql"

(***************************************************************************)
(* C12.  The output file is only ever appended to: every step leaves the   *)
(* lines that were in the file in place, as they were.  When the driver is *)
(* run a second time on the same input, with the endpoints answering as in *)
(* the first run, the file that started empty ends as the lines of the     *)
(* first run followed by the same lines again: twice as many lines.        *)
(***************************************************************************)
RunEnded == pc \in {"done", "aborted"}

C12_AppendOnlyAndDoubling ==
    [][/\ Len(out_file') >= Len(out_file)
       /\ SubSeq(out_file', 1, Len(out_file)) = out_file
       /\ (rerun'.n = 1 /\ RunEnded') =>
             /\ out_file' = rerun'.lines \o rerun'.lines
             /\ Len(out_file') = 2 * Len(rerun'.lines)]_vars

\* a second 4-hop run of two pair-batches has ended on a file of the first run
C12_Witness ==
    /\ rerun.n = 1 /\ pc = "done" /\ batch_idx = 2
    /\ variant = "threehop"
    /\ Len(rerun.lines) >= 2
    /\ rerun.lines[1] # rerun.lines[2]
    /\ Len(out_file) = 2 * Len(rerun.lines)

(***************************************************************************)
(* C13.  In the 4-hop variant a pair-batch whose query succeeded appends   *)
(* one line per returned binding, so a pair with N bindings gets N lines.  *)
(* The line of a binding is {entity1}#{entity2}<TAB> and seven fields      *)
(* separated by #, in the order relation1, x, relation2, y, relation3, z,  *)
(* relation4; each field is the label resolved for the code of the binding *)
(* (its English label, or the code itself when the lookup gave none).      *)
(***************************************************************************)
\* s.split(sep)
RECURSIVE SplitOn(_, _)
SplitOn(sep, s) ==
    LET seps == {k \in DOMAIN s : s[k] = sep}
    IN  IF seps = {} THEN <<s>>
        ELSE LET first == CHOOSE k \in seps : \A j \in seps : k <= j
             IN  <<SubSeq(s, 1, first - 1)>>
                   \o SplitOn(sep, SubSeq(s, first + 1, Len(s)))

\* the seven codes of a binding, in the order of the output fields
CodesOfBinding(b) ==
    <<LastSegment(ValueOf(b, "relation1")), Intermediate(ValueOf(b, "x")),
      LastSegment(ValueOf(b, "relation2")), Intermediate(ValueOf(b, "y")),
      LastSegment(ValueOf(b, "relation3")), Intermediate(ValueOf(b, "z")),
      LastSegment(ValueOf(b, "relation4"))>>

\* the label the lookups of the batch resolved for the code of field f
ResolvedLabel(f, c) ==
    IF f \in {1, 3, 5, 7} THEN property_labels[c] ELSE entity_labels[c]

C13_OneLinePerBinding ==
    (variant = "threehop" /\ JustWritten) =>
        LET lines == LinesJustWritten
            grouped == GroupedBindings(BindingsOfResult)
        IN  /\ Len(lines) = Len(BindingsOfResult)
            /\ \A p \in Range(BatchAt(batch_idx - 1)) :
                  Cardinality({k \in DOMAIN lines : PairOfLine(lines[k]) = p})
                    = Cardinality({k \in DOMAIN BindingsOfResult :
                                      KeyOfBinding(BindingsOfResult[k]) = p})
            /\ \A k \in DOMAIN lines :
                  LET fields == SplitOn("#", TextOfLine(lines[k]))
                      codes == CodesOfBinding(grouped[k])
                  IN  /\ PairOfLine(lines[k]) = KeyOfBinding(grouped[k])
                      /\ lines[k] = KeyOfBinding(grouped[k])[1] \o <<"#">>
                                      \o KeyOfBinding(grouped[k])[2] \o <<"\t">>
                                      \o Join("#", fields)
                      /\ Len(fields) = 7
                      /\ \A f \in 1..7 :
                            /\ fields[f] = ResolvedLabel(f, codes[f])
                            /\ fields[f] \in {EnLabel(codes[f]), codes[f]}

\* pair C with two bindings and pair B with one, three lines, labels resolved
C13_Witness ==
    /\ variant = "threehop" /\ JustWritten
    /\ Len(BindingsOfResult) = 3
    /\ Cardinality({k \in 1..3 : KeyOfBinding(BindingsOfResult[k]) = PairC}) = 2
    /\ Cardinality({k \in 1..3 : PairOfLine(LinesJustWritten[k]) = PairC}) = 2
    /\ \E k \in 1..3 :
          SplitOn("#", TextOfLine(LinesJustWritten[k]))
            = <<<<"part of">>, <<"thing">>, P2, <<"thing">>,
                <<"part of">>, <<"thing">>, P2>>

(***************************************************************************)
(* C14.  In the 4-hop variant the code kept for an intermediate value      *)
(* (x, y, z) is what follows the last "/" of the raw value, cut before its *)
(* first "-", in uppercase: that code, and no other form of the value, is  *)
(* in the list of codes to resolve, in the requests to the lookup service  *)
(* and behind the output fields.  Pair identifiers and relation codes (in  *)
(* both variants) are what follows the last "/", unchanged.                *)
(***************************************************************************)
IsTrailingSegment(raw, seg) ==
    /\ "/" \notin Range(seg)
    /\ \E k \in 0..Len(raw) :
          /\ k = 0 \/ raw[k] = "/"
          /\ seg = SubSeq(raw, k + 1, Len(raw))

IsCutAtFirstDash(seg, head) ==
    /\ "-" \notin Range(head)
    /\ \E k \in 1..(Len(seg) + 1) :
          /\ k = Len(seg) + 1 \/ seg[k] = "-"
          /\ head = SubSeq(seg, 1, k - 1)

IsUppercaseOf(head, code) ==
    /\ Len(code) = Len(head)
    /\ \A k \in DOMAIN head : code[k] = UpperToken(head[k])
    /\ \A k \in DOMAIN code : code[k] \notin {"qx", "Qx", "qy", "1ab2", "e"}

IsNormalised(raw, code) ==
    \E seg \in {SubSeq(raw, k, Len(raw)) : k \in 1..(Len(raw) + 1)} :
        /\ IsTrailingSegment(raw, seg)
        /\ \E head \in {SubSeq(seg, 1, k) : k \in 0..Len(seg)} :
              IsCutAtFirstDash(seg, head) /\ IsUppercaseOf(head, code)

\* the codes of the label requests in the log
RequestedCodes == UNION {Range(events[k].arg) : k \in {j \in DOMAIN events : events[j].op = "labels"}}

C14_IntermediatesNormalised ==
    (pc # "aggregate") =>
        LET b == BindingsOfResult[1]
            key == entity_relations[1].key
            kept == entity_relations[1].vals[1]
        IN  /\ IsTrailingSegment(ValueOf(b, "entity1"), key[1])
            /\ IsTrailingSegment(ValueOf(b, "entity2"), key[2])
            /\ IF variant = "onehop"
               THEN /\ IsTrailingSegment(ValueOf(b, "property"), kept)
                    /\ Range(all_property_ids) = {kept}
                    /\ RequestedCodes \subseteq {kept}
               ELSE /\ IsNormalised(ValueOf(b, "x"), kept.intermediate_x)
                    /\ IsNormalised(ValueOf(b, "y"), kept.intermediate_y)
                    /\ IsNormalised(ValueOf(b, "z"), kept.intermediate_z)
                    /\ \A r \in {"relation1", "relation2", "relation3", "relation4"} :
                          IsTrailingSegment(ValueOf(b, r), kept[r])
                    /\ Range(unique_entities)
                         = {kept.intermediate_x, kept.intermediate_y, kept.intermediate_z}
                    /\ Range(all_property_ids)
                         = {kept.relation1, kept.relation2, kept.relation3, kept.relation4}
                    /\ RequestedCodes \subseteq
                         Range(all_property_ids) \cup Range(unique_entities)
                    /\ pc = "done" =>
                          /\ RequestedCodes
                               = Range(all_property_ids) \cup Range(unique_entities)
                          /\ LET fields == SplitOn("#", TextOfLine(out_file[1]))
                             IN  /\ fields[2] = entity_labels[kept.intermediate_x]
                                 /\ fields[2] \in {EnLabel(kept.intermediate_x),
                                                   kept.intermediate_x}

\* .../statement/Qx-1ab2 was requested as QX and written as its label
C14_Witness ==
    /\ variant = "threehop" /\ pc = "done"
    /\ ValueOf(BindingsOfResult[1], "x") = StatementUri(<<"Qx">>, <<"1ab2">>)
    /\ ValueOf(BindingsOfResult[1], "relation1") = <<"qx", "-", "1ab2">>
    /\ entity_relations[1].vals[1].intermediate_x = QX
    /\ entity_relations[1].vals[1].relation1 = <<"qx", "-", "1ab2">>
    /\ \E k \in DOMAIN events : events[k].op = "labels" /\ events[k].arg = <<QX>>
    /\ SplitOn("#", TextOfLine(out_file[1]))[2] = <<"thing">>

(***************************************************************************)
(* C15.  The driver cuts the input into ceil(n / batch_size) contiguous    *)
(* slices in input order that cover every pair once, each of batch_size    *)
(* pairs but possibly the last; it issues the graph queries in slice       *)
(* order, one per slice and never a second one for a slice, and whatever   *)
(* the endpoint answered, a run that has ended has queried every slice.    *)
(***************************************************************************)
IsSparqlRequest(e) == e.op = "sparql"

\* the batches of the graph queries issued so far, in the order of the log
QueriedBatches ==
    LET qs == SelectSeq(events, IsSparqlRequest)
    IN  [k \in DOMAIN qs |-> qs[k].arg]

C15_OneQueryPerSlice ==
    LET n == total_batches
        slices == [k \in 1..n |-> BatchAt(k - 1)]
    IN  /\ n = Ceil(Len(entity_pairs), batch_size)
        /\ Concat(slices) = entity_pairs
        /\ \A k \in 1..n :
              \/ Len(slices[k]) = batch_size
              \/ k = n /\ Len(slices[k]) >= 1 /\ Len(slices[k]) < batch_size
        /\ Len(QueriedBatches) <= n
        /\ \A k \in DOMAIN QueriedBatches : QueriedBatches[k] = slices[k]
        /\ pc \in {"done", "aborted"} => Len(QueriedBatches) = n

(***************************************************************************)
(* C16.  Pair-batches go one after another through query, aggregation,     *)
(* label resolution and write.  When the lines of a batch are about to be  *)
(* written every label sub-batch of the batch has been requested; after    *)
(* the write of a batch no label request follows before the next graph     *)
(* query; each batch is written at most once, after its own query and      *)
(* before the next one; and the output file is the lines of the writes in  *)
(* the order of the batches.                                               *)
(***************************************************************************)
SparqlsBefore(k) == Cardinality({j \in 1..k : events[j].op = "sparql"})

IsWrite(e) == e.op = "write"

WrittenLines ==
    LET ws == SelectSeq(events, IsWrite)
    IN  Concat([k \in DOMAIN ws |-> ws[k].arg])

C16_PhasesInOrder ==
    /\ (pc = "write") =>
          /\ Concat(LabelRequestsOfBatch) = all_property_ids \o unique_entities
          /\ DOMAIN property_labels = Range(all_property_ids)
          /\ variant = "threehop" => DOMAIN entity_labels = Range(unique_entities)
    /\ \A k \in DOMAIN events :
          /\ events[k].op = "labels" =>
                /\ SparqlsBefore(k) >= 1
                /\ \A j \in 1..(k - 1) :
                      events[j].op = "write" => SparqlsBefore(j) < SparqlsBefore(k)
          /\ events[k].op = "write" =>
                /\ SparqlsBefore(k) >= 1
                /\ \A j \in 1..(k - 1) :
                      events[j].op = "write" => SparqlsBefore(j) < SparqlsBefore(k)
                /\ \A l \in DOMAIN events[k].arg :
                      PairOfLine(events[k].arg[l])
                        \in Range(BatchAt(SparqlsBefore(k) - 1))
    /\ out_file = WrittenLines

\* a finished 4-hop run whose two batches were both written, B before C
C16_Witness ==
    /\ variant = "threehop" /\ pc = "done" /\ batch_idx = 2
    /\ Len(SelectSeq(events, IsWrite)) = 2
    /\ Len(out_file) >= 2
    /\ PairOfLine(out_file[1]) = PairB
    /\ PairOfLine(out_file[Len(out_file)]) = PairC
    /\ \E k \in DOMAIN events : events[k].op = "labels" /\ QX \in Range(events[k].arg)

(***************************************************************************)
(* C17.  When the lines of a pair-batch are written, every relation code   *)
(* of the aggregated paths is a key of property_labels and, in the 4-hop   *)
(* variant, every intermediate code is a key of entity_labels, whatever    *)
(* the lookup service answered.  So the default of the driver's .get is    *)
(* never what is written: each field is the value the map has for the      *)
(* code, and no field of a 1-hop line is No Relation.                      *)
(***************************************************************************)
\* the fields of the 1-hop line of an entry, read from the map without default
OneHop_FieldsOf(entry) ==
    [k \in DOMAIN entry.vals |-> property_labels[entry.vals[k]]]

C17_LabelMapCoversCodes ==
    /\ (pc = "write" \/ JustWritten) =>
          /\ DistinctRelationCodes \subseteq DOMAIN property_labels
          /\ DistinctEntityCodes \subseteq DOMAIN entity_labels
    /\ (variant = "onehop" /\ JustWritten) =>
          /\ Len(LinesJustWritten) = Len(entity_relations)
          /\ \A k \in DOMAIN LinesJustWritten :
                LET fields == SplitOn("$", TextOfLine(LinesJustWritten[k]))
                IN  /\ fields = OneHop_FieldsOf(entity_relations[k])
                    /\ NoRelation \notin Range(fields)
    /\ (variant = "threehop" /\ JustWritten) =>
          LET entries == GroupEntries(entity_relations)
          IN  /\ Len(LinesJustWritten) = Len(entries)
              /\ \A k \in DOMAIN LinesJustWritten :
                    LET fields == SplitOn("#", TextOfLine(LinesJustWritten[k]))
                        kept == entries[k][2]
                    IN  fields = <<property_labels[kept.relation1],
                                   entity_labels[kept.intermediate_x],
                                   property_labels[kept.relation2],
                                   entity_labels[kept.intermediate_y],
                                   property_labels[kept.relation3],
                                   entity_labels[kept.intermediate_z],
                                   property_labels[kept.relation4]>>

\* a 1-hop line written after one lookup answered and the next one failed
C17_Witness ==
    /\ variant = "onehop" /\ JustWritten
    /\ call.made /\ call.response.status = 500
    /\ \E k \in DOMAIN LinesJustWritten :
          SplitOn("$", TextOfLine(LinesJustWritten[k])) = <<<<"instance of">>, P279>>

(***************************************************************************)
(* C18.  Labels are not carried from one pair-batch to the next.  A batch  *)
(* whose query succeeded starts its label loops from an empty map; when    *)
(* its lines are written the keys of the maps are the codes of this batch  *)
(* and no others, every one of them requested again in this batch, and the *)
(* value of a code is what this batch's own lookup returned for it, also   *)
(* when an earlier batch resolved the same code differently.               *)
(***************************************************************************)
\* the map the last label request of the batch was merged into
LastLookupMap ==
    IF variant = "threehop" /\ unique_entities # <<>>
    THEN entity_labels ELSE property_labels

C18_LabelsNotCarriedOver ==
    /\ JustAggregated => property_labels = EmptyDict
    /\ (pc = "entity_labels" /\ label_i = 0) => entity_labels = EmptyDict
    /\ (pc = "write") =>
          LET reqs == LabelRequestsOfBatch
          IN  /\ DOMAIN property_labels = Range(all_property_ids)
              /\ variant = "threehop" => DOMAIN entity_labels = Range(unique_entities)
              /\ DOMAIN property_labels \cup
                   (IF variant = "threehop" THEN DOMAIN entity_labels ELSE {})
                     = Range(Concat(reqs))
              /\ reqs # <<>> =>
                    /\ call.property_ids = reqs[Len(reqs)]
                    /\ \A c \in Range(call.property_ids) :
                          LastLookupMap[c] = call.ret.labels[c]

\* P31 was resolved in the first batch; its lookup failed in the second
C18_Witness ==
    /\ variant = "onehop" /\ pc = "done" /\ batch_idx = 2
    /\ call.made /\ call.response.status = 500 /\ call.property_ids = <<P31>>
    /\ Len(out_file) = 2
    /\ TextOfLine(out_file[1]) = <<"instance of">>
    /\ TextOfLine(out_file[2]) = P31

====
